---- MODULE Spec2Model ----
(***************************************************************************)
(* FMR dashboard (app.py): the project status classifier                   *)
(* determine_project_status and the "Project Dashboard" tab that applies   *)
(* it to every row of the project frame and renders a map layer and a      *)
(* table.                                                                   *)
(*                                                                         *)
(* A date string is a sequence of one-character strings; a date is a       *)
(* record [year, month, day]; latitudes and longitudes are the source's    *)
(* decimals scaled by 10^4.                                                 *)
(***************************************************************************)
EXTENDS Integers, Sequences, FiniteSets, TLC

VARIABLES
    data,            \* the dict of columns built on every script run
    simulated_date,  \* value of the "System Current Date" date input
    df,              \* the frame after the status/color assignment
    layer,           \* markers handed to the ScatterplotLayer / pydeck chart
    table,           \* rows handed to st.dataframe
    exception        \* "none", or the exception class that ended the run

vars == <<data, simulated_date, df, layer, table, exception>>

----------------------------------------------------------------------------
(* Bounds *)

\* longest project list of the dashboard specification
MaxRecords == 2
\* number of consecutive evaluation dates the date input can take
NumDays == 75
\* largest progress value of the classifier specification
MaxProgress == 101

----------------------------------------------------------------------------
(* datetime.date: the proleptic Gregorian calendar *)

is_leap(year) == year % 4 = 0 /\ (year % 100 # 0 \/ year % 400 = 0)

days_in_month(year, month) ==
    IF month = 2 THEN (IF is_leap(year) THEN 29 ELSE 28)
    ELSE IF month \in {4, 6, 9, 11} THEN 30 ELSE 31

days_before_year(year) ==
    LET y == year - 1 IN y * 365 + (y \div 4) - (y \div 100) + (y \div 400)

RECURSIVE days_before_month(_, _)
days_before_month(year, month) ==
    IF month = 1 THEN 0
    ELSE days_before_month(year, month - 1) + days_in_month(year, month - 1)

\* date.toordinal(): 0001-01-01 is day 1
toordinal(d) == days_before_year(d.year) + days_before_month(d.year, d.month) + d.day

\* date(year, month, day) accepts exactly these fields
is_valid_date(year, month, day) ==
    /\ year \in 1..9999
    /\ month \in 1..12
    /\ day >= 1
    /\ day <= days_in_month(year, month)

\* (a - b).days
days_between(a, b) == toordinal(a) - toordinal(b)

----------------------------------------------------------------------------
(* datetime.strptime(s, "%Y-%m-%d").date() *)

Digits == {"0", "1", "2", "3", "4", "5", "6", "7", "8", "9"}

DigitVal(c) ==
    CASE c = "0" -> 0 [] c = "1" -> 1 [] c = "2" -> 2 [] c = "3" -> 3
      [] c = "4" -> 4 [] c = "5" -> 5 [] c = "6" -> 6 [] c = "7" -> 7
      [] c = "8" -> 8 [] c = "9" -> 9

NonZeroDigits == Digits \ {"0"}

\* int() of the characters s[from..to], all digits or a leading blank
RECURSIVE to_int(_, _, _)
to_int(s, from, to) ==
    IF to < from THEN 0
    ELSE IF s[to] = " " THEN to_int(s, from, to - 1)
    ELSE to_int(s, from, to - 1) * 10 + DigitVal(s[to])

\* %Y is \d\d\d\d at position 1, followed by the literal "-"
year_len(s) ==
    IF Len(s) >= 5 /\ (\A i \in 1..4 : s[i] \in Digits) /\ s[5] = "-"
    THEN 4 ELSE 0

\* %m is 1[0-2]|0[1-9]|[1-9] at position i, followed by the literal "-"
month_len(s, i) ==
    IF /\ Len(s) >= i + 2
       /\ \/ s[i] = "1" /\ s[i + 1] \in {"0", "1", "2"}
          \/ s[i] = "0" /\ s[i + 1] \in NonZeroDigits
       /\ s[i + 2] = "-"
    THEN 2
    ELSE IF Len(s) >= i + 1 /\ s[i] \in NonZeroDigits /\ s[i + 1] = "-"
    THEN 1
    ELSE 0

\* %d is 3[01]|[12]\d|0[1-9]|[1-9]| [1-9] at position j; the first
\* alternative that matches is taken, nothing follows it in the pattern
day_len(s, j) ==
    IF /\ Len(s) >= j + 1
       /\ \/ s[j] = "3" /\ s[j + 1] \in {"0", "1"}
          \/ s[j] \in {"1", "2"} /\ s[j + 1] \in Digits
          \/ s[j] = "0" /\ s[j + 1] \in NonZeroDigits
    THEN 2
    ELSE IF Len(s) >= j /\ s[j] \in NonZeroDigits
    THEN 1
    ELSE IF Len(s) >= j + 1 /\ s[j] = " " /\ s[j + 1] \in NonZeroDigits
    THEN 2
    ELSE 0

\* The result of strptime(...).date(): the date, or ValueError when the
\* string does not match the format, when characters remain after the
\* match, or when the fields are no calendar date.
strptime_date(s) ==
    LET bad == [ok |-> FALSE, exc |-> "ValueError"]
        ylen == year_len(s)
        mlen == IF ylen = 0 THEN 0 ELSE month_len(s, 6)
        dpos == 6 + mlen + 1
        dlen == IF mlen = 0 THEN 0 ELSE day_len(s, dpos)
    IN  IF ylen = 0 \/ mlen = 0 \/ dlen = 0 THEN bad
        ELSE IF dpos + dlen # Len(s) + 1 THEN bad
        ELSE LET year  == to_int(s, 1, 4)
                 month == to_int(s, 6, 5 + mlen)
                 day   == to_int(s, dpos, dpos + dlen - 1)
             IN  IF is_valid_date(year, month, day)
                 THEN [ok |-> TRUE,
                       date |-> [year |-> year, month |-> month, day |-> day]]
                 ELSE bad

----------------------------------------------------------------------------
(* determine_project_status *)

Returned(status, color) == [raised |-> FALSE, status |-> status, color |-> color]

Raised(exc) == [raised |-> TRUE, exc |-> exc]

\* status_of with the Delayed test ahead of the Completed test
status_of_delayed_first(days_remaining, progress) ==
    IF days_remaining < 0 THEN Returned("Delayed", <<255, 0, 0, 160>>)
    ELSE IF progress >= 100 THEN Returned("Completed", <<0, 255, 0, 160>>)
    ELSE IF days_remaining <= 30 /\ progress < 80
         THEN Returned("At Risk", <<255, 165, 0, 160>>)
    ELSE Returned("On Track", <<0, 150, 255, 160>>)

\* status_of with the target day itself counted as late
status_of_due_is_late(days_remaining, progress) ==
    IF progress >= 100 THEN Returned("Completed", <<0, 255, 0, 160>>)
    ELSE IF days_remaining <= 0 THEN Returned("Delayed", <<255, 0, 0, 160>>)
    ELSE IF days_remaining <= 30 /\ progress < 80
         THEN Returned("At Risk", <<255, 165, 0, 160>>)
    ELSE Returned("On Track", <<0, 150, 255, 160>>)

\* status_of with the 30-day bound exclusive
status_of_under_30(days_remaining, progress) ==
    IF progress >= 100 THEN Returned("Completed", <<0, 255, 0, 160>>)
    ELSE IF days_remaining < 0 THEN Returned("Delayed", <<255, 0, 0, 160>>)
    ELSE IF days_remaining < 30 /\ progress < 80
         THEN Returned("At Risk", <<255, 165, 0, 160>>)
    ELSE Returned("On Track", <<0, 150, 255, 160>>)

\* status_of with the 80 percent bound inclusive
status_of_upto_80(days_remaining, progress) ==
    IF progress >= 100 THEN Returned("Completed", <<0, 255, 0, 160>>)
    ELSE IF days_remaining < 0 THEN Returned("Delayed", <<255, 0, 0, 160>>)
    ELSE IF days_remaining <= 30 /\ progress <= 80
         THEN Returned("At Risk", <<255, 165, 0, 160>>)
    ELSE Returned("On Track", <<0, 150, 255, 160>>)

\* status_of with progress compared to 100 strictly and no branch for the rest
status_of_only_below_100(days_remaining, progress) ==
    IF progress = 100 THEN Returned("Completed", <<0, 255, 0, 160>>)
    ELSE IF progress > 100 THEN Returned("Unknown", <<0, 0, 0, 160>>)
    ELSE IF days_remaining < 0 THEN Returned("Delayed", <<255, 0, 0, 160>>)
    ELSE IF days_remaining <= 30 /\ progress < 80
         THEN Returned("At Risk", <<255, 165, 0, 160>>)
    ELSE Returned("On Track", <<0, 150, 255, 160>>)

\* status_of with the At Risk branch carrying the Delayed colour
status_of_red_at_risk(days_remaining, progress) ==
    IF progress >= 100 THEN Returned("Completed", <<0, 255, 0, 160>>)
    ELSE IF days_remaining < 0 THEN Returned("Delayed", <<255, 0, 0, 160>>)
    ELSE IF days_remaining <= 30 /\ progress < 80
         THEN Returned("At Risk", <<255, 0, 0, 160>>)
    ELSE Returned("On Track", <<0, 150, 255, 160>>)

\* status_of with the At Risk test ahead of the Delayed test
status_of_at_risk_first(days_remaining, progress) ==
    IF progress >= 100 THEN Returned("Completed", <<0, 255, 0, 160>>)
    ELSE IF days_remaining <= 30 /\ progress < 80
         THEN Returned("At Risk", <<255, 165, 0, 160>>)
    ELSE IF days_remaining < 0 THEN Returned("Delayed", <<255, 0, 0, 160>>)
    ELSE Returned("On Track", <<0, 150, 255, 160>>)

\* The four branches, entered once the target date has parsed.
status_of(days_remaining, progress) ==
    IF progress >= 100 THEN Returned("Completed", <<0, 255, 0, 160>>)
    ELSE IF days_remaining < 0 THEN Returned("Delayed", <<255, 0, 0, 160>>)
    ELSE IF days_remaining <= 30 /\ progress < 80
         THEN Returned("At Risk", <<255, 165, 0, 160>>)
    ELSE Returned("On Track", <<0, 150, 255, 160>>)

\* determine_project_status with the progress test ahead of strptime
determine_project_status_progress_first(target_date_str, progress, evaluation_date) ==
    IF progress >= 100 THEN Returned("Completed", <<0, 255, 0, 160>>)
    ELSE LET parsed == strptime_date(target_date_str)
         IN  IF ~parsed.ok THEN Raised(parsed.exc)
             ELSE status_of(days_between(parsed.date, evaluation_date), progress)

\* strptime runs first: its ValueError leaves the function before any
\* comparison of progress.
determine_project_status(target_date_str, progress, evaluation_date) ==
    LET parsed == strptime_date(target_date_str)
    IN  IF ~parsed.ok THEN Raised(parsed.exc)
        ELSE status_of(days_between(parsed.date, evaluation_date), progress)

----------------------------------------------------------------------------
(* The "Project Dashboard" tab: one script run *)

\* pd.DataFrame(data): row i takes the i-th entry of every column
DataFrame(d) ==
    [i \in 1..Len(d.project_name) |->
        [project_name |-> d.project_name[i],
         lat          |-> d.lat[i],
         lon          |-> d.lon[i],
         target_date  |-> d.target_date[i],
         progress_pct |-> d.progress_pct[i]]]

\* apply_status with the date of the first run kept for later runs
apply_status_first_date(frame, date) ==
    [i \in DOMAIN frame |->
        determine_project_status(frame[i].target_date, frame[i].progress_pct,
                                 [year |-> 2026, month |-> 1, day |-> 5])]

\* df.apply(lambda row: ..., axis=1): the classifier on every row, in order
apply_status(frame, date) ==
    [i \in DOMAIN frame |->
        determine_project_status(frame[i].target_date, frame[i].progress_pct, date)]

\* df[['status', 'color']] = ...
assign_status_color(frame, res) ==
    [i \in DOMAIN frame |->
        frame[i] @@ [status |-> res[i].status, color |-> res[i].color]]

\* scatterplot_layer with the position given as [lat, lon]
scatterplot_layer_lat_lon(frame) ==
    [i \in DOMAIN frame |->
        [position |-> <<frame[i].lat, frame[i].lon>>,
         color    |-> frame[i].color,
         tooltip  |-> [project_name |-> frame[i].project_name,
                       status       |-> frame[i].status,
                       progress_pct |-> frame[i].progress_pct]]]

\* pdk.Layer('ScatterplotLayer', data=df, get_position='[lon, lat]',
\* get_color='color') with the deck's tooltip text
scatterplot_layer(frame) ==
    [i \in DOMAIN frame |->
        [position |-> <<frame[i].lon, frame[i].lat>>,
         color    |-> frame[i].color,
         tooltip  |-> [project_name |-> frame[i].project_name,
                       status       |-> frame[i].status,
                       progress_pct |-> frame[i].progress_pct]]]

\* st.dataframe(df[['project_name', 'status', 'progress_pct', 'target_date',
\* 'lat', 'lon']])
project_directory(frame) ==
    [i \in DOMAIN frame |->
        [project_name |-> frame[i].project_name,
         status       |-> frame[i].status,
         progress_pct |-> frame[i].progress_pct,
         target_date  |-> frame[i].target_date,
         lat          |-> frame[i].lat,
         lon          |-> frame[i].lon]]

\* The tab's code from pd.DataFrame to st.dataframe.  An exception raised by
\* the classifier on any row leaves the script before the assignment: the
\* frame keeps its five columns and neither the chart nor the table is drawn.
tab_map(d, date) ==
    LET frame == DataFrame(d)
        res   == apply_status(frame, date)
    IN  IF \E i \in DOMAIN res : res[i].raised
        THEN [df        |-> frame,
              layer     |-> <<>>,
              table     |-> <<>>,
              exception |-> res[CHOOSE i \in DOMAIN res :
                                  /\ res[i].raised
                                  /\ \A j \in 1..(i - 1) : ~res[j].raised].exc]
        ELSE LET classified == assign_status_color(frame, res)
             IN  [df        |-> classified,
                  layer     |-> scatterplot_layer(classified),
                  table     |-> project_directory(classified),
                  exception |-> "none"]

----------------------------------------------------------------------------
(* Inputs *)

\* datetime.now().date() at the first run, and the first date of the window
\* the date input ranges over
FirstDate == [year |-> 2026, month |-> 1, day |-> 5]

\* NumDays consecutive dates from FirstDate on
EvalDates ==
    {d \in [year : {2026}, month : 1..12, day : 1..31] :
        /\ is_valid_date(d.year, d.month, d.day)
        /\ toordinal(d) >= toordinal(FirstDate)
        /\ toordinal(d) < toordinal(FirstDate) + NumDays}

\* target dates that parse
WellFormedStrs ==
    { <<"2", "0", "2", "6", "-", "0", "3", "-", "1", "5">>,   \* 2026-03-15
      <<"2", "0", "2", "6", "-", "0", "2", "-", "1", "0">>,   \* 2026-02-10
      <<"2", "0", "2", "5", "-", "1", "2", "-", "0", "1">>,   \* 2025-12-01
      <<"2", "0", "2", "4", "-", "0", "2", "-", "2", "9">>,   \* 2024-02-29
      <<"2", "0", "2", "6", "-", "1", "-", "5">>,             \* 2026-1-5
      <<"2", "0", "2", "6", "-", "0", "2", "-", " ", "9">>,   \* 2026-02- 9
      <<"2", "0", "2", "6", "-", "1", "2", "-", "3", "1">> }  \* 2026-12-31

\* target dates on which strptime raises
MalformedStrs ==
    { <<"2", "0", "2", "6", "-", "0", "2", "-", "2", "9">>,        \* 2026-02-29
      <<"2", "0", "2", "6", "-", "1", "3", "-", "0", "1">>,        \* 2026-13-01
      <<"2", "0", "2", "6", "-", "0", "4", "-", "3", "1">>,        \* 2026-04-31
      <<"2", "0", "2", "6", "-", "0", "3", "-", "0", "0">>,        \* 2026-03-00
      <<"1", "5", "/", "0", "3", "/", "2", "0", "2", "6">>,        \* 15/03/2026
      <<"2", "0", "2", "6", "-", "0", "3", "-", "1", "5", "x">>,   \* 2026-03-15x
      <<"2", "6", "-", "0", "3", "-", "1", "5">>,                  \* 26-03-15
      <<"0", "0", "0", "0", "-", "0", "1", "-", "0", "1">>,        \* 0000-01-01
      <<"2", "0", "2", "6", "-", "0", "2", "-", "3", "0">>,        \* 2026-02-30
      <<>> }                                                       \* empty

TargetDateStrs == WellFormedStrs \cup MalformedStrs

ProgressValues == {-5, 0, 40, 60, 79, 80, 81, 99} \cup (100..MaxProgress)

\* the three rows of the source's mock data
SanJose ==
    [project_name |-> "Brgy. San Jose Road Concreting",
     lat |-> 107202, lon |-> 1225621,
     target_date |-> <<"2", "0", "2", "6", "-", "0", "3", "-", "1", "5">>,
     progress_pct |-> 60]

StaCruz ==
    [project_name |-> "Sta. Cruz Repair Phase 2",
     lat |-> 107310, lon |-> 1225500,
     target_date |-> <<"2", "0", "2", "6", "-", "0", "2", "-", "1", "0">>,
     progress_pct |-> 40]

MandurriaoJaro ==
    [project_name |-> "Mandurriao-Jaro Link",
     lat |-> 107150, lon |-> 1225400,
     target_date |-> <<"2", "0", "2", "5", "-", "1", "2", "-", "0", "1">>,
     progress_pct |-> 100]

\* a row whose target date is no calendar date
BadDateRow ==
    [project_name |-> "Unscheduled Road",
     lat |-> 107000, lon |-> 1225000,
     target_date |-> <<"2", "0", "2", "6", "-", "0", "2", "-", "3", "0">>,
     progress_pct |-> 100]

ProjectPool == {SanJose, StaCruz, MandurriaoJaro, BadDateRow}

\* the dict of columns for a list of rows
Columns(rows) ==
    [project_name |-> [i \in DOMAIN rows |-> rows[i].project_name],
     lat          |-> [i \in DOMAIN rows |-> rows[i].lat],
     lon          |-> [i \in DOMAIN rows |-> rows[i].lon],
     target_date  |-> [i \in DOMAIN rows |-> rows[i].target_date],
     progress_pct |-> [i \in DOMAIN rows |-> rows[i].progress_pct]]

\* the source's data, and every non-empty list of at most MaxRecords rows
DataSets ==
    {Columns(<<SanJose, StaCruz, MandurriaoJaro>>)} \cup
    UNION {{Columns(rows) : rows \in [1..n -> ProjectPool]} : n \in 1..MaxRecords}

\* one row: the first project with any target date string and progress
SingleRowDataSets ==
    {Columns(<<[SanJose EXCEPT !.target_date = s, !.progress_pct = p]>>) :
        s \in TargetDateStrs, p \in ProgressValues}

----------------------------------------------------------------------------
(* The state machine: one step is one run of the script *)

Shows(d, date) ==
    \E run \in {tab_map(d, date)} :
        /\ df = run.df
        /\ layer = run.layer
        /\ table = run.table
        /\ exception = run.exception

\* the first run: the date input shows its default, today
Init ==
    /\ data \in DataSets \cup SingleRowDataSets
    /\ simulated_date = FirstDate
    /\ Shows(data, simulated_date)

\* the script run: the data literal is rebuilt, the tab is recomputed
ScriptRun(date) ==
    \E run \in {tab_map(data, date)} :
        /\ simulated_date' = date
        /\ data' = data
        /\ df' = run.df
        /\ layer' = run.layer
        /\ table' = run.table
        /\ exception' = run.exception

\* the user picks another date in the date input
ChangeDate ==
    \E d \in EvalDates : d # simulated_date /\ ScriptRun(d)

\* any other widget interaction reruns the script with the date kept
Rerun == ScriptRun(simulated_date)

Next == ChangeDate \/ Rerun

Spec == Init /\ [][Next]_vars

----------------------------------------------------------------------------
(* Properties *)

Rows == 1..Len(data.project_name)

NoRaise == exception = "none"

AllWellFormed == \A i \in Rows : data.target_date[i] \in WellFormedStrs

\* days from the evaluation date to row i's target date (row i well-formed)
DaysRemaining(i) ==
    days_between(strptime_date(data.target_date[i]).date, simulated_date)

Progress(i) == data.progress_pct[i]

Statuses == {"Completed", "Delayed", "At Risk", "On Track"}

\* C1: with every target date well-formed the run does not raise, and every
\* row with progress >= 100 has status Completed, whatever its target date is,
\* a target date before the evaluation date included.
C1_CompletedFirst ==
    AllWellFormed =>
        /\ NoRaise
        /\ \A i \in Rows : Progress(i) >= 100 => df[i].status = "Completed"

\* a row at 100 percent or more whose target date has passed is Completed
C1_Witness ==
    /\ AllWellFormed
    /\ NoRaise
    /\ \E i \in Rows :
        /\ Progress(i) >= 100
        /\ DaysRemaining(i) < 0
        /\ df[i].status = "Completed"

\* C2: a row with progress < 100 whose well-formed target date is strictly
\* before the evaluation date is Delayed; a row whose target date is the
\* evaluation date is not Delayed.
C2_Delayed ==
    AllWellFormed =>
        /\ NoRaise
        /\ \A i \in Rows :
            /\ (Progress(i) < 100 /\ DaysRemaining(i) < 0) => df[i].status = "Delayed"
            /\ DaysRemaining(i) = 0 => df[i].status # "Delayed"

\* a row at 99 percent one day past its target date is Delayed
C2_Witness ==
    /\ AllWellFormed
    /\ NoRaise
    /\ \E i \in Rows :
        /\ Progress(i) = 99
        /\ DaysRemaining(i) = -1
        /\ df[i].status = "Delayed"

\* C3: a row with progress < 80 whose target date is 0 to 30 days after the
\* evaluation date, both ends included, is At Risk.
C3_AtRisk ==
    AllWellFormed =>
        /\ NoRaise
        /\ \A i \in Rows :
            (Progress(i) < 80 /\ DaysRemaining(i) >= 0 /\ DaysRemaining(i) <= 30)
                => df[i].status = "At Risk"

\* a row at 79 percent exactly 30 days before its target date is At Risk
C3_Witness ==
    /\ AllWellFormed
    /\ NoRaise
    /\ \E i \in Rows :
        /\ Progress(i) = 79
        /\ DaysRemaining(i) = 30
        /\ df[i].status = "At Risk"

\* C4: a row with progress < 100 whose target date is not before the
\* evaluation date is On Track exactly when more than 30 days remain or
\* progress is at least 80.
C4_OnTrack ==
    AllWellFormed =>
        /\ NoRaise
        /\ \A i \in Rows :
            (Progress(i) < 100 /\ DaysRemaining(i) >= 0) =>
                (df[i].status = "On Track"
                    <=> (DaysRemaining(i) > 30 \/ Progress(i) >= 80))

\* a row at exactly 80 percent exactly 30 days before its target date is
\* On Track
C4_Witness ==
    /\ AllWellFormed
    /\ NoRaise
    /\ \E i \in Rows :
        /\ Progress(i) = 80
        /\ DaysRemaining(i) = 30
        /\ df[i].status = "On Track"

\* C5: when some row's target date string is no calendar date in the format,
\* the run ends in ValueError whatever the progress values and evaluation
\* date are: no row gets a status or a colour and nothing is drawn.
C5_MalformedRaises ==
    (\E i \in Rows : data.target_date[i] \in MalformedStrs) =>
        /\ exception = "ValueError"
        /\ \A i \in DOMAIN df : DOMAIN df[i] \cap {"status", "color"} = {}
        /\ layer = <<>>
        /\ table = <<>>

\* a malformed target date on a row at 100 percent or more has raised
C5_Witness ==
    /\ \E i \in Rows :
        /\ data.target_date[i] \in MalformedStrs
        /\ Progress(i) >= 100
    /\ exception = "ValueError"

\* C6: with every target date well-formed the run never raises and every row
\* has one of the four statuses, for every progress value, negative values
\* and values above 100 included; a value above 100 is Completed.
C6_TotalOnWellFormed ==
    AllWellFormed =>
        /\ NoRaise
        /\ \A i \in Rows :
            /\ df[i].status \in Statuses
            /\ Progress(i) > 100 => df[i].status = "Completed"

\* a row with negative progress has been given one of the four statuses
C6_Witness ==
    /\ AllWellFormed
    /\ NoRaise
    /\ \E i \in Rows : Progress(i) < 0 /\ df[i].status \in Statuses

\* the colour the source pairs with each status
ColorOf(status) ==
    CASE status = "Completed" -> <<0, 255, 0, 160>>
      [] status = "Delayed"   -> <<255, 0, 0, 160>>
      [] status = "At Risk"   -> <<255, 165, 0, 160>>
      [] status = "On Track"  -> <<0, 150, 255, 160>>

\* the same colours with the alpha channel at its maximum
OpaqueColorOf(status) == [ColorOf(status) EXCEPT ![4] = 255]

\* C7 as stated: every row's colour is the opaque colour of its status
\* (alpha 255).
C7_OpaqueColors ==
    NoRaise => \A i \in DOMAIN df : df[i].color = OpaqueColorOf(df[i].status)

\* C7, amended: every row's colour is the colour of its status with alpha
\* 160 (Completed green, Delayed red, At Risk orange, On Track blue), the map
\* marker carries the same colour, and no two statuses share a colour.
C7_ColorByStatus ==
    /\ \A s, t \in Statuses : ColorOf(s) = ColorOf(t) => s = t
    /\ NoRaise =>
        \A i \in DOMAIN df :
            /\ df[i].status \in Statuses
            /\ df[i].color = ColorOf(df[i].status)
            /\ df[i].color[4] = 160
            /\ layer[i].color = ColorOf(df[i].status)

\* one run shows an At Risk row and a row of another status
C7_Witness ==
    /\ NoRaise
    /\ \E i, j \in DOMAIN df :
        /\ df[i].status = "At Risk"
        /\ df[j].status # "At Risk"

\* C8: a run that does not raise draws one table row and one marker per
\* input record, in input order: row i carries record i's name, progress,
\* target date and coordinates with its status, and marker i sits at record
\* i's (lon, lat) with its colour.
C8_Projection ==
    NoRaise =>
        /\ DOMAIN table = Rows
        /\ DOMAIN layer = Rows
        /\ \A i \in Rows :
            /\ table[i].project_name = data.project_name[i]
            /\ table[i].progress_pct = data.progress_pct[i]
            /\ table[i].target_date = data.target_date[i]
            /\ table[i].lat = data.lat[i]
            /\ table[i].lon = data.lon[i]
            /\ table[i].status = df[i].status
            /\ layer[i].position = <<data.lon[i], data.lat[i]>>
            /\ layer[i].color = df[i].color
            /\ layer[i].tooltip.project_name = data.project_name[i]

\* the source's three records are drawn as three rows and three markers
C8_Witness ==
    /\ data = Columns(<<SanJose, StaCruz, MandurriaoJaro>>)
    /\ NoRaise
    /\ Len(table) = 3
    /\ Len(layer) = 3

\* what is shown is the classification at the date of the current run
C9_Fresh ==
    NoRaise =>
        \A i \in Rows :
            LET now == determine_project_status(
                           data.target_date[i], data.progress_pct[i], simulated_date)
            IN  /\ ~now.raised
                /\ table[i].status = now.status
                /\ layer[i].tooltip.status = now.status
                /\ layer[i].color = now.color

\* C9: after any sequence of date changes and reruns, every status and
\* colour shown is determine_project_status of the record and the current
\* evaluation date, and no step changes the input records.
C9_Recomputed == []C9_Fresh /\ [][data' = data]_vars

\* a Delayed row is shown at a date later than the first one
C9_Witness ==
    /\ NoRaise
    /\ simulated_date # FirstDate
    /\ \E i \in Rows : table[i].status = "Delayed" /\ DaysRemaining(i) = -1 /\ Progress(i) = 40

\* position of a status in the order On Track, At Risk, Delayed
Rank(status) ==
    CASE status = "On Track" -> 0
      [] status = "At Risk"  -> 1
      [] status = "Delayed"  -> 2
      [] status = "Completed" -> 3

\* the evaluation dates at which a record is At Risk
AtRiskDates(target_date_str, progress) ==
    {d \in EvalDates :
        LET r == determine_project_status(target_date_str, progress, d)
        IN  ~r.raised /\ r.status = "At Risk"}

\* the whole 31-day window before row i's target date is in EvalDates
WindowInRange(i) ==
    LET offset == days_between(simulated_date, FirstDate)
    IN  /\ DaysRemaining(i) >= 30 - offset
        /\ DaysRemaining(i) <= NumDays - 1 - offset

\* at one date: Completed from 100 percent on, At Risk exactly on the days
\* with 0..30 days remaining below 80 percent, never At Risk from 80 percent
\* on, and 31 At Risk dates in all
C10_AtDate ==
    (AllWellFormed /\ NoRaise) =>
        \A i \in Rows :
            /\ Progress(i) >= 100 => df[i].status = "Completed"
            /\ Progress(i) < 80 =>
                (df[i].status = "At Risk"
                    <=> (DaysRemaining(i) >= 0 /\ DaysRemaining(i) <= 30))
            /\ (Progress(i) >= 80 /\ Progress(i) < 100) =>
                df[i].status \in {"On Track", "Delayed"}
            /\ Progress(i) < 100 =>
                (df[i].status = "Delayed" <=> DaysRemaining(i) < 0)
            /\ (Progress(i) < 80 /\ WindowInRange(i)) =>
                Cardinality(AtRiskDates(data.target_date[i], Progress(i))) = 31

\* a step to a later evaluation date moves no row's status backwards
C10_Forward ==
    (AllWellFormed /\ NoRaise
        /\ toordinal(simulated_date') > toordinal(simulated_date)) =>
        \A i \in Rows :
            /\ Rank(df[i].status') >= Rank(df[i].status)
            /\ df[i].status = "Delayed" => df[i].status' = "Delayed"
            /\ df[i].status = "Completed" <=> df[i].status' = "Completed"

\* C10: for a fixed record, as the evaluation date advances the status only
\* moves forward: Completed throughout from 100 percent on; below 80 percent
\* On Track, then At Risk on exactly the 31 dates with 0..30 days remaining,
\* then Delayed; from 80 to 99 percent On Track then Delayed, never At Risk;
\* Delayed stays Delayed.
C10_StatusOnlyAdvances == []C10_AtDate /\ [][C10_Forward]_vars

\* a row below 80 percent is Delayed on the day after its target date
C10_Witness ==
    /\ AllWellFormed
    /\ NoRaise
    /\ \E i \in Rows :
        /\ Progress(i) = 60
        /\ DaysRemaining(i) = -1
        /\ WindowInRange(i)
        /\ df[i].status = "Delayed"

====
